---- MODULE Spec2Model ----
(***************************************************************************)
(* Medi-Scribe Enterprise, Patient Kiosk (src/app.py).                     *)
(*                                                                         *)
(* One Streamlit script run is one atomic step: the pressed button decides *)
(* which handler runs, then both tabs are rendered.  A Python string is a  *)
(* sequence of tokens; the three markers, the blank, the line break and    *)
(* '*' are tokens of their own, every other token is an ordinary word.     *)
(* Python's None is the one-token sequence None, which no text contains.   *)
(***************************************************************************)
EXTENDS Integers, Sequences, FiniteSets, TLC

VARIABLES analysis_result, specialist_type, user_city, sources_clean,
          appointments, calendar, audit_log, bucket, ui, request

vars == <<analysis_result, specialist_type, user_city, sources_clean,
          appointments, calendar, audit_log, bucket, ui, request>>

session == <<analysis_result, specialist_type, user_city, sources_clean>>

(* ------------------------------ bounds --------------------------------- *)
MaxLen == 5
MaxChunks == 3
MaxBookings == 2
MaxUploads == 2

(* ----------------------------- constants ------------------------------- *)
SlotMinutes == 30

None == <<"None">>
SUMMARY == "SUMMARY:"
SPECIALIST == "SPECIALIST:"
ADVICE == "ADVICE:"
LF == "\n"
Whitespace == {" ", LF}

DefaultSummary == <<"Report Analyzed.">>
DefaultSpecialist == <<"General Physician">>
DefaultAdvice == <<"Consultation recommended.">>
DefaultCity == "Hyderabad"
Fallback == <<"Verified via Google.">>

(* --------------------------- string helpers ---------------------------- *)
\* m in s
Contains(s, m) == \E i \in 1..Len(s) : s[i] = m

\* s.find(m) + 1 when m is in s
IndexOf(s, m) == CHOOSE i \in 1..Len(s) : s[i] = m /\ \A j \in 1..(i - 1) : s[j] # m

\* s.split(m, 1) when m is in s
SplitOnce(s, m) == <<SubSeq(s, 1, IndexOf(s, m) - 1), SubSeq(s, IndexOf(s, m) + 1, Len(s))>>

\* s.split(m)[1] when m is in s: what lies between the first m and the next
SplitSecond(s, m) ==
    LET after == SplitOnce(s, m)[2]
    IN  IF Contains(after, m) THEN SplitOnce(after, m)[1] ELSE after

\* s.strip()
Strip(s) ==
    LET solid == {i \in 1..Len(s) : s[i] \notin Whitespace}
    IN  IF solid = {} THEN <<>>
        ELSE SubSeq(s, CHOOSE i \in solid : \A j \in solid : i <= j,
                       CHOOSE i \in solid : \A j \in solid : i >= j)

\* s.split('\n')[0]
FirstLine(s) == IF Contains(s, LF) THEN SplitOnce(s, LF)[1] ELSE s

\* s.replace("*", "")
RemoveStars(s) == SelectSeq(s, LAMBDA c : c # "*")

\* specialist.strip().split('\n')[0].replace("*", "")
Normalise(s) == RemoveStars(FirstLine(Strip(s)))

\* truth value of an optional string: None and "" are false
Truthy(v) == v # None /\ v # <<>>

(* --------------------------- response parser --------------------------- *)
ParseResponse_Swapped(text) ==
    IF Contains(text, SUMMARY) /\ Contains(SplitSecond(text, SUMMARY), SPECIALIST)
    THEN LET parts == SplitSecond(text, SUMMARY)
             rest == SplitOnce(parts, SPECIALIST)[2]
         IN  IF Contains(rest, ADVICE)
             THEN [summary |-> SplitOnce(parts, SPECIALIST)[1],
                   specialist |-> SplitOnce(rest, ADVICE)[2],
                   advice |-> SplitOnce(rest, ADVICE)[1]]
             ELSE [summary |-> SplitOnce(parts, SPECIALIST)[1],
                   specialist |-> DefaultSpecialist, advice |-> DefaultAdvice]
    ELSE [summary |-> DefaultSummary, specialist |-> DefaultSpecialist,
          advice |-> DefaultAdvice]

ParseResponse(text) ==
    IF Contains(text, SUMMARY)
    THEN LET parts == SplitSecond(text, SUMMARY)
         IN  IF Contains(parts, SPECIALIST)
             THEN LET summary == SplitOnce(parts, SPECIALIST)[1]
                      rest == SplitOnce(parts, SPECIALIST)[2]
                  IN  IF Contains(rest, ADVICE)
                      THEN [summary |-> summary,
                            specialist |-> SplitOnce(rest, ADVICE)[1],
                            advice |-> SplitOnce(rest, ADVICE)[2]]
                      ELSE [summary |-> summary,
                            specialist |-> DefaultSpecialist,
                            advice |-> DefaultAdvice]
             ELSE [summary |-> DefaultSummary, specialist |-> DefaultSpecialist,
                   advice |-> DefaultAdvice]
    ELSE [summary |-> DefaultSummary, specialist |-> DefaultSpecialist,
          advice |-> DefaultAdvice]

(* ------------------------- grounding metadata -------------------------- *)
\* A chunk either carries a web citation, carries none, or raises when read.
WebChunk == [kind |-> "web", title |-> "WHO", uri |-> "who.int"]
PlainChunk == [kind |-> "plain", title |-> "", uri |-> ""]
BrokenChunk == [kind |-> "broken", title |-> "", uri |-> ""]
Chunks == {WebChunk, PlainChunk, BrokenChunk}

\* f"{i+1}. {c.web.title}: {c.web.uri}\n"
SourceLine(n, c) == <<ToString(n), ". ", c.title, ": ", c.uri, LF>>

\* the for loop of the extraction; a raising chunk ends it with what was built
RECURSIVE CollectSources(_, _, _)
CollectSources(chunks, i, sources) ==
    IF i > Len(chunks) THEN sources
    ELSE IF chunks[i].kind = "broken" THEN sources
    ELSE IF chunks[i].kind = "web"
         THEN CollectSources(chunks, i + 1, sources \o SourceLine(i, chunks[i]))
         ELSE CollectSources(chunks, i + 1, sources)

\* md.present = FALSE: reading grounding_metadata.grounding_chunks raises
ExtractSources(md) ==
    IF ~md.present THEN Fallback
    ELSE IF md.chunks = <<>> THEN Fallback
    ELSE CollectSources(md.chunks, 1, <<>>)

(* ---------------------------- collaborators ---------------------------- *)
\* create_professional_pdf: (path, link) or (None, error); a None section
\* raises inside the try and is caught there
NoReport == [summary |-> None, doctors |-> None, sources |-> None, appt_info |-> None]

create_professional_pdf(summary, doctors, sources, appt_info, storage_ok) ==
    IF storage_ok /\ summary # None /\ doctors # None /\ sources # None
    THEN [path |-> <<"/tmp/Report.pdf">>, uploaded |-> 1]
    ELSE [path |-> None, uploaded |-> 0]

\* the event block_hospital_calendar inserts
CalendarEvent(patient_name, doctor_name, slot) ==
    [summary |-> <<"BOOKED: ", doctor_name, " (Pt: ", patient_name, ")">>,
     start |-> slot, end |-> slot + SlotMinutes]

\* block_hospital_calendar: (True, link) and the event, or (False, error) and
\* a logged error
block_hospital_calendar(patient_name, doctor_name, slot, api_ok) ==
    IF api_ok
    THEN [success |-> TRUE,
          events |-> <<CalendarEvent(patient_name, doctor_name, slot)>>,
          logged |-> <<>>]
    ELSE [success |-> FALSE, events |-> <<>>,
          logged |-> <<"Calendar API Error">>]

BookingRecord_Pending(p_email, specialist, doc_name) ==
    [patient_email |-> p_email, specialist |-> specialist,
     doctor_name |-> doc_name, status |-> "Pending"]

\* the document added to the "appointments" collection (its timestamp, the
\* wall clock, is left out)
BookingRecord(p_email, specialist, doc_name) ==
    [patient_email |-> p_email, specialist |-> specialist,
     doctor_name |-> doc_name, status |-> "Confirmed"]

\* f"Email: {p_email}\nDoc: {doc_name}\nDate: {appt_date} {appt_time}\nStatus: Confirmed"
BookingDetails(p_email, doc_name, slot) ==
    <<"Email: ", p_email, LF, "Doc: ", doc_name, LF, "Date: ", ToString(slot), LF,
      "Status: Confirmed">>

(* ------------------------------ rendering ------------------------------ *)
Msg(kind, text, arg) == [kind |-> kind, text |-> text, arg |-> arg]

BookingAllowed_NoCheck(result) == TRUE

\* if st.session_state.analysis_result:
BookingAllowed(result) == Truthy(result)

FormValid_EmailOnly(p_email, doc_name) == p_email # ""

\* if p_email and doc_name:
FormValid(p_email, doc_name) == p_email # "" /\ doc_name # ""

\* tab2 up to the form, before any submission is handled
Tab2Page(result, specialist) ==
    IF BookingAllowed(result)
    THEN <<Msg("info", "Recommended Specialist", specialist),
           Msg("link_button", "Search on Practo", specialist),
           Msg("link_button", "Search on Apollo", specialist),
           Msg("form", "booking_form", <<>>)>>
    ELSE <<Msg("warning", "Analyze report first.", <<>>)>>

Page(tab1, tab2, download, exception, report) ==
    [tab1 |-> tab1, tab2 |-> tab2, download |-> download,
     exception |-> exception, report |-> report]

NoMetadata == [present |-> FALSE, chunks |-> <<>>]

\* What the last script run was given and how its external calls ended
\* ("ok", "failed", or "-" when the call was not made).
AnalyzeRequest(text, md, model, storage) ==
    [op |-> "analyze", text |-> text, md |-> md, p_email |-> "", doc_name |-> "",
     slot |-> 0, submitted |-> FALSE, model |-> model, cal |-> "-", db |-> "-",
     storage |-> storage]

BookRequest(p_email, doc_name, slot, submitted, cal, db, storage) ==
    [op |-> "book", text |-> <<>>, md |-> NoMetadata, p_email |-> p_email,
     doc_name |-> doc_name, slot |-> slot, submitted |-> submitted,
     model |-> "-", cal |-> cal, db |-> db, storage |-> storage]

Outcome(ok) == IF ok THEN "ok" ELSE "failed"

\* generate_google_calendar_link
generate_google_calendar_link(patient_email, doctor_name, slot) ==
    <<"https://calendar.google.com/calendar/render?action=TEMPLATE",
      "&text=", "Doctor Appointment: ", doctor_name,
      "&details=", "Confirmed.", LF, "Doctor: ", doctor_name, LF, "Email: ", patient_email,
      "&dates=", ToString(slot), "/", ToString(slot + SlotMinutes),
      "&location=", "Medi-Scribe Medical Center">>

(* ------------------------------- inputs -------------------------------- *)
Alphabet == {SUMMARY, SPECIALIST, ADVICE, " ", LF, "*", "a"}
BoundedTexts == UNION {[1..n -> Alphabet] : n \in 0..MaxLen}

ScenarioA ==
    <<SUMMARY, " ", "Mild", " ", "fracture", " ", SPECIALIST, " ", "Orthopedist", " ",
      ADVICE, " ", "See", " ", "a", " ", "doctor">>

\* a specialist that opens with an emphasis marker
StarredSpecialist == <<SUMMARY, "a", SPECIALIST, "*", " ", "a", LF, "a", ADVICE>>

Texts == BoundedTexts \cup {ScenarioA, StarredSpecialist}

\* the model outputs the booking workflow is explored with
SampleTexts ==
    {<<"a">>,
     <<SUMMARY, SPECIALIST, "a", ADVICE, "a">>,
     StarredSpecialist}

\* the grounding metadata the booking workflow is explored with
SampleMetadata == {NoMetadata, [present |-> TRUE, chunks |-> <<WebChunk>>]}

Metadata ==
    {NoMetadata} \cup
    {[present |-> TRUE, chunks |-> c] : c \in UNION {[1..n -> Chunks] : n \in 0..MaxChunks}}

Cities == {DefaultCity}
Emails == {"", "a@x.com"}
Doctors == {"", "Dr. Rao"}
Slots == {600}

(* ----------------------------- the session ----------------------------- *)
\* first run of the kiosk page: session defaults, nothing pressed
Init ==
    /\ analysis_result = None
    /\ specialist_type = DefaultSpecialist
    /\ user_city = DefaultCity
    /\ sources_clean = None
    /\ appointments = <<>>
    /\ calendar = <<>>
    /\ audit_log = <<>>
    /\ bucket = 0
    /\ ui = Page(<<>>, Tab2Page(None, DefaultSpecialist), "None", FALSE, NoReport)
    /\ request = [op |-> "load", text |-> <<>>, md |-> NoMetadata, p_email |-> "",
                  doc_name |-> "", slot |-> 0, submitted |-> FALSE, model |-> "-",
                  cal |-> "-", db |-> "-", storage |-> "-"]

\* "Process Record" pressed and the model call (or reading its text) raises:
\* the outer except shows the error, the session is untouched
AnalyzeFails ==
    /\ ui' = Page(<<Msg("error", "Error:", <<>>)>>,
                  Tab2Page(analysis_result, specialist_type), "None", FALSE, NoReport)
    /\ request' = AnalyzeRequest(<<>>, NoMetadata, "failed", "-")
    /\ UNCHANGED <<session, appointments, calendar, audit_log, bucket>>

\* "Process Record" pressed and the model answers with text and metadata md
Analyze(text, md, city, storage_ok) ==
    LET parsed == ParseResponse(text)
        sources == ExtractSources(md)
        pdf == create_professional_pdf(parsed.summary, parsed.advice, sources, None, storage_ok)
        report == [summary |-> parsed.summary, doctors |-> parsed.advice,
                   sources |-> sources, appt_info |-> None]
        shown == <<Msg("success", "Analysis Complete. Recommended:", parsed.specialist),
                   Msg("markdown", "summary", parsed.summary)>>
    IN  /\ analysis_result' = parsed.summary
        /\ specialist_type' = Normalise(parsed.specialist)
        /\ user_city' = city
        /\ sources_clean' = sources
        /\ bucket' = bucket + pdf.uploaded
        /\ ui' = Page(shown, Tab2Page(analysis_result', specialist_type'),
                      IF pdf.path # None THEN "Report.pdf" ELSE "None", FALSE, report)
        /\ request' = AnalyzeRequest(text, md, "ok", Outcome(pdf.path # None))
        /\ UNCHANGED <<appointments, calendar, audit_log>>

\* tab2 with the booking form submitted (when the form is there at all)
Book(p_email, doc_name, slot, cal_ok, db_ok, storage_ok) ==
    IF ~BookingAllowed(analysis_result)
    THEN /\ ui' = Page(<<>>, Tab2Page(analysis_result, specialist_type), "None", FALSE, NoReport)
         /\ request' = BookRequest("", "", 0, FALSE, "-", "-", "-")
         /\ UNCHANGED <<session, appointments, calendar, audit_log, bucket>>
    ELSE IF ~FormValid(p_email, doc_name)
    THEN /\ ui' = Page(<<>>, Tab2Page(analysis_result, specialist_type)
                             \o <<Msg("warning", "Fill details.", <<>>)>>,
                       "None", FALSE, NoReport)
         /\ request' = BookRequest(p_email, doc_name, slot, TRUE, "-", "-", "-")
         /\ UNCHANGED <<session, appointments, calendar, audit_log, bucket>>
    ELSE LET cal == block_hospital_calendar(p_email, doc_name, slot, cal_ok)
             link == generate_google_calendar_link(p_email, doc_name, slot)
             details == BookingDetails(p_email, doc_name, slot)
             pdf == create_professional_pdf(analysis_result, details, sources_clean,
                                            details, storage_ok)
             report == [summary |-> analysis_result, doctors |-> details,
                        sources |-> sources_clean, appt_info |-> details]
             shown == Tab2Page(analysis_result, specialist_type)
                        \o <<Msg("success", "Slot Blocked for", <<doc_name>>),
                             Msg("markdown", "Click here to Add to YOUR Calendar", link)>>
         IN  /\ calendar' = calendar \o cal.events
             /\ audit_log' = audit_log \o cal.logged
             /\ IF ~db_ok
                THEN \* the add raises: the run ends with the exception
                     /\ appointments' = appointments
                     /\ bucket' = bucket
                     /\ ui' = Page(<<>>, shown, "None", TRUE, NoReport)
                     /\ request' = BookRequest(p_email, doc_name, slot, TRUE,
                                               Outcome(cal.success), "failed", "-")
                ELSE /\ appointments' = Append(appointments,
                                               BookingRecord(p_email, specialist_type, doc_name))
                     /\ bucket' = bucket + pdf.uploaded
                     \* open(path) with path None raises TypeError
                     /\ ui' = Page(<<>>, shown,
                                   IF pdf.path # None THEN "Pass.pdf" ELSE "None",
                                   pdf.path = None, report)
                     /\ request' = BookRequest(p_email, doc_name, slot, TRUE,
                                               Outcome(cal.success), "ok",
                                               Outcome(pdf.path # None))
             /\ UNCHANGED session

(* ------------------------------- actions ------------------------------- *)
ProcessRecordError == AnalyzeFails

ProcessRecord ==
    /\ bucket < MaxUploads
    /\ \E text \in SampleTexts, md \in SampleMetadata, city \in Cities,
          storage_ok \in BOOLEAN :
          Analyze(text, md, city, storage_ok)

ConfirmBooking ==
    /\ bucket < MaxUploads
    /\ Len(appointments) < MaxBookings
    /\ Len(calendar) < MaxBookings
    /\ Len(audit_log) < MaxBookings
    /\ \E p_email \in Emails, doc_name \in Doctors, slot \in Slots,
          cal_ok \in BOOLEAN, db_ok \in BOOLEAN, storage_ok \in BOOLEAN :
          Book(p_email, doc_name, slot, cal_ok, db_ok, storage_ok)

Next == ProcessRecordError \/ ProcessRecord \/ ConfirmBooking

Spec == Init /\ [][Next]_vars

\* the first analysis of a session, over every bounded model output
ProcessFirstRecord ==
    /\ request.op = "load"
    /\ \E text \in Texts, city \in Cities :
          Analyze(text, [present |-> TRUE, chunks |-> <<WebChunk>>], city, TRUE)

NextParse == ProcessFirstRecord

ParseSpec == Init /\ [][NextParse]_vars

\* the first analysis of a session, over every bounded grounding metadata
ProcessFirstGrounded ==
    /\ request.op = "load"
    /\ \E text \in SampleTexts, md \in Metadata, city \in Cities, storage_ok \in BOOLEAN :
          Analyze(text, md, city, storage_ok)

NextGrounding == ProcessFirstGrounded

GroundingSpec == Init /\ [][NextGrounding]_vars

(* ------------------------------ properties ----------------------------- *)
Shows(tab, kind, text) == \E i \in 1..Len(tab) : tab[i].kind = kind /\ tab[i].text = text
ShowsKind(tab, kind) == \E i \in 1..Len(tab) : tab[i].kind = kind

\* a submission of the booking form with both fields filled in
ValidSubmission(r) == r.op = "book" /\ r.submitted /\ r.p_email # "" /\ r.doc_name # ""

Untouched == UNCHANGED <<session, appointments, calendar, audit_log, bucket>>

\* C1: an appointment is added, and the hospital calendar written, only in a
\* step that starts with an analysis result in the session; a booking attempt
\* in a session without one changes nothing and only shows the warning.
C1_BookingRequiresAnalysis ==
    [][/\ (appointments' # appointments \/ calendar' # calendar) => analysis_result # None
       /\ (request'.op = "book" /\ analysis_result = None) =>
             /\ Untouched
             /\ ui'.tab2 = <<Msg("warning", "Analyze report first.", <<>>)>>
             /\ ui'.download = "None"
             /\ ~ui'.exception]_vars

C1_Witness ==
    /\ request.op = "book"
    /\ analysis_result = None
    /\ Shows(ui.tab2, "warning", "Analyze report first.")
    /\ appointments = <<>>
    /\ calendar = <<>>

\* C2: a submission with an empty email or an empty doctor name adds no
\* record, writes no calendar event, produces no link and no PDF, leaves the
\* session as it was, and shows the validation warning.
C2_EmptyFieldsRejected ==
    [][(request'.op = "book" /\ request'.submitted
           /\ (request'.p_email = "" \/ request'.doc_name = "")) =>
             /\ Untouched
             /\ Shows(ui'.tab2, "warning", "Fill details.")
             /\ ~ShowsKind(ui'.tab2, "markdown")
             /\ ~ShowsKind(ui'.tab2, "success")
             /\ ui'.download = "None"
             /\ ui'.report = NoReport
             /\ request'.cal = "-"]_vars

C2_Witness ==
    /\ request.op = "book"
    /\ request.submitted
    /\ request.p_email # ""
    /\ request.doc_name = ""
    /\ Shows(ui.tab2, "warning", "Fill details.")

\* C3 as stated: every valid submission whose calendar write fails persists
\* exactly one record with status "Confirmed" and offers the confirmation
\* document for download.
C3_Original ==
    [][(ValidSubmission(request') /\ request'.cal = "failed") =>
             /\ Len(appointments') = Len(appointments) + 1
             /\ appointments'[Len(appointments')].status = "Confirmed"
             /\ SubSeq(appointments', 1, Len(appointments)) = appointments
             /\ ui'.download = "Pass.pdf"]_vars

\* C3 amended: when the calendar write fails nothing is written to the
\* calendar, the error is logged, and the remaining steps run as they do
\* otherwise: exactly one "Confirmed" record is added when the appointments
\* write succeeds (none when it raises), and the confirmation document is
\* offered exactly when the report was also built and uploaded.
C3_CalendarFailureDoesNotAbort ==
    [][(ValidSubmission(request') /\ request'.cal = "failed") =>
             /\ calendar' = calendar
             /\ Len(audit_log') = Len(audit_log) + 1
             /\ request'.db = "ok" =>
                   /\ Len(appointments') = Len(appointments) + 1
                   /\ SubSeq(appointments', 1, Len(appointments)) = appointments
                   /\ appointments'[Len(appointments')].status = "Confirmed"
                   /\ appointments'[Len(appointments')].patient_email = request'.p_email
                   /\ appointments'[Len(appointments')].doctor_name = request'.doc_name
             /\ request'.db = "failed" => appointments' = appointments
             /\ ui'.download = "Pass.pdf" <=> (request'.db = "ok" /\ request'.storage = "ok")
             /\ ShowsKind(ui'.tab2, "markdown")]_vars

C3_Witness ==
    /\ ValidSubmission(request)
    /\ request.cal = "failed"
    /\ request.db = "ok"
    /\ request.storage = "ok"
    /\ appointments # <<>>
    /\ appointments[Len(appointments)].status = "Confirmed"
    /\ calendar = <<>>
    /\ ui.download = "Pass.pdf"

\* C4: after a valid submission whose calendar write failed, the failure is
\* in the log and the page shows it to the patient as an error.
C4_CalendarFailureSurfaced ==
    (ValidSubmission(request) /\ request.cal = "failed") =>
        /\ audit_log # <<>>
        /\ ShowsKind(ui.tab2, "error")
        /\ ~Shows(ui.tab2, "success", "Slot Blocked for")

\* C5: when the report could not be produced, in the analysis run and in the
\* booking run alike, the run ends without an uncaught exception and simply
\* offers no download.
C5_MissingReportNonFatal ==
    request.storage = "failed" => (~ui.exception /\ ui.download = "None")

\* C6 as stated: for the text "SUMMARY:X SPECIALIST:Y ADVICE:Z" the summary
\* is X, the specialist is Y normalised and the advice is Z; the scenario
\* text gives ("Mild fracture", "Orthopedist", "See a doctor").
C6_Original ==
    request.op = "analyze" =>
        /\ \A j \in 3..Len(request.text), k \in 5..Len(request.text) :
              (/\ j + 1 < k
               /\ request.text[1] = SUMMARY
               /\ request.text[j - 1] = " " /\ request.text[j] = SPECIALIST
               /\ request.text[k - 1] = " " /\ request.text[k] = ADVICE) =>
                  /\ analysis_result = SubSeq(request.text, 2, j - 2)
                  /\ specialist_type = Normalise(SubSeq(request.text, j + 1, k - 2))
                  /\ ui.report.doctors = SubSeq(request.text, k + 1, Len(request.text))
        /\ request.text = ScenarioA =>
              /\ analysis_result = <<"Mild", " ", "fracture">>
              /\ specialist_type = <<"Orthopedist">>
              /\ ui.report.doctors = <<"See", " ", "a", " ", "doctor">>

\* C6 amended: for a text "SUMMARY:" X "SPECIALIST:" Y "ADVICE:" Z in which no
\* marker recurs inside a field (X holds neither SUMMARY: nor SPECIALIST:, Y
\* neither SUMMARY: nor ADVICE:, Z no SUMMARY:), the summary is X and the
\* advice is Z exactly as written, surrounding blanks included, and the
\* specialist is Y normalised; the scenario text gives (" Mild fracture ",
\* "Orthopedist", " See a doctor").
C6_FullMatchVerbatim ==
    request.op = "analyze" =>
        /\ \A j \in 2..Len(request.text), k \in 3..Len(request.text) :
              LET X == SubSeq(request.text, 2, j - 1)
                  Y == SubSeq(request.text, j + 1, k - 1)
                  Z == SubSeq(request.text, k + 1, Len(request.text))
              IN  (/\ j < k
                   /\ request.text[1] = SUMMARY
                   /\ request.text[j] = SPECIALIST
                   /\ request.text[k] = ADVICE
                   /\ ~\E i \in 1..Len(X) : X[i] \in {SUMMARY, SPECIALIST}
                   /\ ~\E i \in 1..Len(Y) : Y[i] \in {SUMMARY, ADVICE}
                   /\ ~\E i \in 1..Len(Z) : Z[i] = SUMMARY) =>
                      /\ analysis_result = X
                      /\ specialist_type = Normalise(Y)
                      /\ ui.report.doctors = Z
        /\ request.text = ScenarioA =>
              /\ analysis_result = <<" ", "Mild", " ", "fracture", " ">>
              /\ specialist_type = <<"Orthopedist">>
              /\ ui.report.doctors = <<" ", "See", " ", "a", " ", "doctor">>

C6_Witness ==
    /\ request.op = "analyze"
    /\ request.text = ScenarioA
    /\ analysis_result = <<" ", "Mild", " ", "fracture", " ">>
    /\ specialist_type = <<"Orthopedist">>
    /\ ui.report.doctors = <<" ", "See", " ", "a", " ", "doctor">>

\* C7: for a text with "SUMMARY:" and without "SPECIALIST:" the summary is
\* the text that follows "SUMMARY:", and specialist and advice are the
\* defaults.
C7_SummaryOnly ==
    (/\ request.op = "analyze"
     /\ Contains(request.text, SUMMARY)
     /\ ~Contains(request.text, SPECIALIST)) =>
        /\ analysis_result = SplitSecond(request.text, SUMMARY)
        /\ specialist_type = DefaultSpecialist
        /\ ui.report.doctors = DefaultAdvice

\* C8: for a text with "SUMMARY:" followed by "SPECIALIST:" and without
\* "ADVICE:" the specialist is the normalised text that follows
\* "SPECIALIST:", and the advice is the default.
C8_SpecialistWithoutAdvice ==
    (/\ request.op = "analyze"
     /\ Contains(request.text, SUMMARY)
     /\ Contains(SplitSecond(request.text, SUMMARY), SPECIALIST)
     /\ ~Contains(request.text, ADVICE)) =>
        /\ specialist_type =
              Normalise(SplitOnce(SplitSecond(request.text, SUMMARY), SPECIALIST)[2])
        /\ ui.report.doctors = DefaultAdvice

\* C9: normalising the stored specialist, itself the result of a
\* normalisation, gives the same string.
C9_NormaliseIdempotent ==
    request.op = "analyze" => Normalise(specialist_type) = specialist_type

\* C10: when reading the grounding metadata fails at any point, or there are
\* no chunks, the sources kept in the session and put in the PDF are the
\* fallback literal.
C10_SourcesFallBack ==
    (/\ request.op = "analyze"
     /\ request.model = "ok"
     /\ \/ ~request.md.present
        \/ request.md.chunks = <<>>
        \/ \E i \in 1..Len(request.md.chunks) : request.md.chunks[i].kind = "broken") =>
        /\ sources_clean = Fallback
        /\ ui.report.sources = Fallback
====
